---------------------------- MODULE Spec2Model ----------------------------
(***************************************************************************)
(* Model of VideoService (src/src/services/video.ts): the pending-URL      *)
(* queue and its drain loop (processVideo / processQueue), the pipeline    *)
(* run (processVideoFromUrl) with its cache lookup, metadata fetch,        *)
(* transcript resolution (getTranscript, transcribeAudio) and cache write. *)
(*                                                                         *)
(* JavaScript runs one synchronous segment at a time: every action below   *)
(* is one such segment, from the event that resumes it (a call of the      *)
(* public API, a timer, the return of an awaited external call) up to the  *)
(* next await of an external call.  The continuation of whoever awaits a   *)
(* pipeline run is a microtask of the segment that ends the run, so it is  *)
(* part of the same action.                                                *)
(***************************************************************************)
EXTENDS Integers, Sequences, FiniteSets, TLC

(***************************************************************************)
(* Bounds of the model.                                                    *)
(***************************************************************************)
\* Number of processVideo calls in one behaviour.
MaxSubs == 2

\* Number of processVideo calls in one behaviour of SpecRelease.
MaxRelease == 3

\* The number of downloadMedia and downloadVideo calls.
MaxMedia == 3

\* The length of the strings getVideoId is called with by itself.
MaxIdLen == 7

\* The length of the strings parseSRT is called with by itself, besides the
\* subtitle file SrtExample.
MaxSrtLen == 6

\* The number of downloadMedia and downloadVideo calls in SpecAudio.
MaxAudioMedia == 1

(***************************************************************************)
(* Strings are sequences of one-character strings.                         *)
(***************************************************************************)
\* The characters the model's URLs are written in, with their UTF-16 codes
\* (String.prototype.charCodeAt).
Alphabet ==
  <<"&", ".", "/", "4", "=", "?", "a", "b", "c", "d", "e", "h", "m", "o",
    "p", "t", "u", "v", "w", "x", "y">>

AlphabetCodes ==
  <<38, 46, 47, 52, 61, 63, 97, 98, 99, 100, 101, 104, 109, 111,
    112, 116, 117, 118, 119, 120, 121>>

charCodeAt(c) ==
  AlphabetCodes[CHOOSE i \in 1..Len(Alphabet) : Alphabet[i] = c]


(***************************************************************************)
(* getVideoId: the 32-bit string hash, printed in base 36.  A 32-bit value *)
(* is handled as a high and a low 16-bit half so that no intermediate      *)
(* result leaves the range of the checker's integers.                      *)
(***************************************************************************)
Hi16(x) == x \div 65536

Lo16(x) == x % 65536

\* ToInt32 of hi * 2^16 + lo (the result of <<, of & on a number).
ToInt32(hi, lo) ==
  LET l == lo % 65536
      h == hi + (lo \div 65536)
      hs == ((h + 32768) % 65536) - 32768
  IN  hs * 65536 + l

\* hash << 5
Shl5(hash) == ToInt32(32 * Hi16(hash), 32 * Lo16(hash))

\* hash = ((hash << 5) - hash) + char; hash = hash & hash
HashStep(hash, char) ==
  LET x == Shl5(hash)
  IN  ToInt32(Hi16(x) - Hi16(hash), Lo16(x) - Lo16(hash) + char)

\* The values of a 32-bit integer.
IsInt32(x) == x \in (0 - 2147483647 - 1)..2147483647

\* The loop of getVideoId from index i - 1 on; hash is a 32-bit integer at
\* the start of every iteration.
RECURSIVE HashFrom(_, _, _)
HashFrom(url, i, hash) ==
  IF i > Len(url) \/ ~IsInt32(hash) THEN hash
  ELSE HashFrom(url, i + 1, HashStep(hash, charCodeAt(url[i])))

Digits36 ==
  <<"0", "1", "2", "3", "4", "5", "6", "7", "8", "9", "a", "b", "c", "d",
    "e", "f", "g", "h", "i", "j", "k", "l", "m", "n", "o", "p", "q", "r",
    "s", "t", "u", "v", "w", "x", "y", "z">>

\* Number.prototype.toString(36) of a non-negative integer.
RECURSIVE ToString36(_)
ToString36(n) ==
  IF n < 36 THEN <<Digits36[n + 1]>>
  ELSE ToString36(n \div 36) \o <<Digits36[(n % 36) + 1]>>

\* A getVideoId that prints the hash with its sign.
SignedToString36(hash) ==
  IF hash >= 0 THEN ToString36(hash)
  ELSE <<"-">> \o ToString36(0 - (hash + 1))

\* Math.abs(hash).toString(36); Math.abs(-2^31) is 2^31, which the last
\* digit is split off from before the sign is dropped.
AbsToString36(hash) ==
  IF hash >= 0 THEN ToString36(hash)
  ELSE LET d == (36 - (hash % 36)) % 36
           q == 0 - ((hash + d) \div 36)
       IN  (IF q = 0 THEN <<>> ELSE ToString36(q)) \o <<Digits36[d + 1]>>

getVideoId(url) == AbsToString36(HashFrom(url, 1, 0))

\* The strings of up to n characters of cs.
Strings(cs, n) == UNION {[1..k -> cs] : k \in 0..n}

(***************************************************************************)
(* The video-ID pattern of processVideoFromUrl:                            *)
(*   (?:youtu\.be\/|youtube\.com(?:\/embed\/|\/v\/|\/watch\?v=|           *)
(*      \/watch\?.+&v=))([^\/&?]+)                                         *)
(* matched as String.prototype.match does: the leftmost start, the         *)
(* alternatives in order, .+ and the capture greedy.                       *)
(***************************************************************************)
PatYoutuBe == <<"y", "o", "u", "t", "u", ".", "b", "e", "/">>

PatYoutubeCom == <<"y", "o", "u", "t", "u", "b", "e", ".", "c", "o", "m">>

PatEmbed == PatYoutubeCom \o <<"/", "e", "m", "b", "e", "d", "/">>

PatV == PatYoutubeCom \o <<"/", "v", "/">>

PatWatchV == PatYoutubeCom \o <<"/", "w", "a", "t", "c", "h", "?", "v", "=">>

PatWatch == PatYoutubeCom \o <<"/", "w", "a", "t", "c", "h", "?">>

PatAmpV == <<"&", "v", "=">>

IdDelims == {"/", "&", "?"}

HasAt(s, p, i) ==
  /\ i >= 1
  /\ i + Len(p) - 1 <= Len(s)
  /\ \A k \in 1..Len(p) : s[i + k - 1] = p[k]

\* Length of the longest run of [^\/&?] that starts at position j.
RECURSIVE IdRun(_, _)
IdRun(s, j) ==
  IF j > Len(s) \/ s[j] \in IdDelims THEN 0 ELSE 1 + IdRun(s, j + 1)

\* Where the capture starts when the pattern matches from position i on,
\* and 0 when it does not match there.
CaptureAt(s, i) ==
  LET fixed(p) == HasAt(s, p, i) /\ IdRun(s, i + Len(p)) >= 1
      amps == {m \in (i + Len(PatWatch) + 1)..Len(s) :
                 HasAt(s, PatAmpV, m) /\ IdRun(s, m + 3) >= 1}
  IN  IF fixed(PatYoutuBe) THEN i + Len(PatYoutuBe)
      ELSE IF fixed(PatEmbed) THEN i + Len(PatEmbed)
      ELSE IF fixed(PatV) THEN i + Len(PatV)
      ELSE IF fixed(PatWatchV) THEN i + Len(PatWatchV)
      ELSE IF HasAt(s, PatWatch, i) /\ amps # {}
        THEN (CHOOSE m \in amps : \A n \in amps : n <= m) + 3
      ELSE 0

\* url.match(pattern)?.[1] || ""
MatchVideoId(url) ==
  LET starts == {i \in 1..Len(url) : CaptureAt(url, i) # 0}
  IN  IF starts = {} THEN <<>>
      ELSE LET i == CHOOSE k \in starts : \A n \in starts : k <= n
               j == CaptureAt(url, i)
           IN  SubSeq(url, j, j + IdRun(url, j) - 1)

\* const videoUuid = this.getVideoId(videoId)
videoUuid(url) == getVideoId(MatchVideoId(url))

\* const cacheKey = `${this.cacheKey}/${videoUuid}`
cacheKeyOf(url) == <<"content/video">> \o videoUuid(url)

\* url.endsWith(".mp4") || url.includes(".mp4?")
PatMp4 == <<".", "m", "p", "4">>

IsDirectMp4(url) ==
  \/ HasAt(url, PatMp4, Len(url) - 3)
  \/ \E i \in 1..Len(url) : HasAt(url, PatMp4 \o <<"?">>, i)


(***************************************************************************)
(* The URLs callers submit.  The state holds their names; UrlText is what  *)
(* each is as a string.                                                    *)
(***************************************************************************)
UrlText ==
  [ytA |-> <<"y", "o", "u", "t", "u", ".", "b", "e", "/", "a">>,
   mp4X |-> <<"h", ".", "c", "o", "m", "/", "x", ".", "m", "p", "4">>,
   rawY |-> <<"h", ".", "c", "o", "m", "/", "y">>,
   rawW |-> <<"h", ".", "c", "o", "m", "/", "w">>]

Urls == DOMAIN UrlText

\* A sequence of one-character strings as the string it spells.
RECURSIVE ToStr(_)
ToStr(s) == IF s = <<>> THEN "" ELSE Head(s) \o ToStr(Tail(s))

\* The cache key and the names of the local artifacts of each URL.
KeyOf == [u \in Urls |-> cacheKeyOf(UrlText[u])]

CacheKeys == {KeyOf[u] : u \in Urls}

\* The videoUuid of each URL.
UuidOf == [u \in Urls |-> videoUuid(UrlText[u])]

Mp3Of == [u \in Urls |-> getVideoId(UrlText[u]) \o <<".", "m", "p", "3">>]

Mp4Of == [u \in Urls |-> getVideoId(UrlText[u]) \o PatMp4]

DirectMp4 == [u \in Urls |-> IsDirectMp4(UrlText[u])]

\* The temporary mp4 of downloadAudio, in the system temp directory.
TmpOf == [u \in Urls |-> <<"tmpdir", "/">> \o Mp4Of[u]]

(***************************************************************************)
(* State.                                                                  *)
(***************************************************************************)
VARIABLES
  queue,       \* this.queue: the pending URLs
  processing,  \* this.processing
  qsub,        \* for each entry of queue, the processVideo call that pushed it
  subs,        \* the URLs of the processVideo calls so far, in call order
  loop,        \* per processVideo call: where its processQueue invocation is
  caller,      \* per processVideo call: its checkQueue and returned promise
  run,         \* per processVideoFromUrl execution: where it is
  cache,       \* runtime.cacheManager: key -> <<>> or <<the record>>
  files,       \* the files in dataDir and, under tmpdir, in the temp directory
  fetchLog,    \* the metadata requests the media fetcher has seen, in order
  media,       \* the downloadMedia and downloadVideo calls so far, in order
  call         \* the last call of a helper by itself: [fn, arg, ret]

vars ==
  <<queue, processing, qsub, subs, loop, caller, run, cache, files, fetchLog,
    media, call>>

SubIds == 1..MaxRelease

\* A pipeline run is started either by the drain loop, for the entry pushed
\* by call s, or by the checkQueue of call s.
RunIds == {"drain", "caller"} \X SubIds

UrlOf(r) == subs[r[2]]

\* No metadata yet.
NoInfo ==
  [title |-> "", description |-> "", channel |-> "", subs |-> FALSE,
   caps |-> FALSE, music |-> FALSE]

\* A run that has not been started.  out is <<>> until the run ends, then
\* <<"record", r>> when it returned r and <<"error", e>> when it threw e.
IdleRun ==
  [pc |-> "none", info |-> NoInfo, text |-> "", out |-> <<>>, calls |-> {}]

\* processVideoFromUrl up to its first await: the cache lookup is sent.
StartRun == [IdleRun EXCEPT !.pc = "cacheGet"]

Init ==
  /\ queue = <<>>
  /\ processing = FALSE
  /\ qsub = <<>>
  /\ subs = <<>>
  /\ loop = [s \in SubIds |-> [st |-> "none", cur |-> 0]]
  /\ caller = [s \in SubIds |-> [st |-> "none", value |-> <<>>]]
  /\ run = [r \in RunIds |-> IdleRun]
  /\ cache = [k \in CacheKeys |-> <<>>]
  /\ files = {}
  /\ fetchLog = <<>>
  /\ media = <<>>
  /\ call = [fn |-> "none", arg |-> <<>>, ret |-> <<>>]

(***************************************************************************)
(* processVideo and processQueue.                                          *)
(***************************************************************************)
\* A processQueue that starts a drain loop whenever there is an entry.
DrainGuardIgnoringFlag(proc, q) == Len(q) # 0

\* A processQueue that always returns at its first lines.
DrainGuardNever(proc, q) == FALSE

\* processQueue goes on past its first lines.
DrainGuard(proc, q) == ~(proc \/ Len(q) = 0)

\* A checkQueue that never waits.
StillQueuedNever(q, url) == FALSE

\* checkQueue: queue.indexOf(url) !== -1
StillQueued(q, url) == \E i \in 1..Len(q) : q[i] = url

\* processVideo(url): push, processQueue up to its first await, and the
\* first checkQueue.
Submit(url, max) ==
  /\ Len(subs) < max
  /\ LET s == Len(subs) + 1
         q1 == Append(queue, url)
         qs1 == Append(qsub, s)
         starts == DrainGuard(processing, q1)
         q2 == IF starts THEN Tail(q1) ELSE q1
         qs2 == IF starts THEN Tail(qs1) ELSE qs1
         run1 == IF starts
                   THEN [run EXCEPT ![<<"drain", Head(qs1)>>] = StartRun]
                   ELSE run
         polls == StillQueued(q2, url)
     IN  /\ subs' = Append(subs, url)
         /\ queue' = q2
         /\ qsub' = qs2
         /\ processing' = (processing \/ starts)
         /\ loop' = [loop EXCEPT ![s] =
                       IF starts THEN [st |-> "awaiting", cur |-> Head(qs1)]
                       ELSE [st |-> "returned", cur |-> 0]]
         /\ caller' = [caller EXCEPT ![s].st =
                         IF polls THEN "polling" ELSE "running"]
         /\ run' = IF polls THEN run1
                   ELSE [run1 EXCEPT ![<<"caller", s>>] = StartRun]
  /\ UNCHANGED <<cache, files, fetchLog, media, call>>

\* The timer of setTimeout(checkQueue, 100) fires.
CheckQueue(s) ==
  /\ caller[s].st = "polling"
  /\ IF StillQueued(queue, subs[s])
       THEN UNCHANGED <<caller, run>>
       ELSE /\ caller' = [caller EXCEPT ![s].st = "running"]
            /\ run' = [run EXCEPT ![<<"caller", s>>] = StartRun]
  /\ UNCHANGED <<queue, processing, qsub, subs, loop, cache, files, fetchLog,
                 media, call>>

(***************************************************************************)
(* The end of a segment of pipeline run r, which leaves the run as nr.     *)
(* When the run has returned or thrown, whoever awaits it goes on in the   *)
(* same segment: the checkQueue of the caller settles the promise; the     *)
(* drain loop takes the next entry or clears the flag, and dies with the   *)
(* error when the run threw (processQueue has no try around its await).    *)
(***************************************************************************)
Settle(r, nr) ==
  LET nrun == [run EXCEPT ![r] = nr]
  IN  IF nr.pc \notin {"done", "failed"}
        THEN /\ run' = nrun
             /\ UNCHANGED <<queue, processing, qsub, loop, caller>>
      ELSE IF r[1] = "caller"
        THEN /\ run' = nrun
             /\ caller' = [caller EXCEPT ![r[2]] =
                   [st |-> IF nr.pc = "done" THEN "resolved" ELSE "rejected",
                    value |-> nr.out]]
             /\ UNCHANGED <<queue, processing, qsub, loop>>
      ELSE LET l == CHOOSE k \in SubIds :
                      loop[k].st = "awaiting" /\ loop[k].cur = r[2]
           IN  /\ UNCHANGED caller
               /\ IF nr.pc = "failed"
                    THEN /\ loop' = [loop EXCEPT ![l].st = "aborted"]
                         /\ run' = nrun
                         /\ UNCHANGED <<queue, processing, qsub>>
                  ELSE IF Len(queue) > 0
                    THEN /\ queue' = Tail(queue)
                         /\ qsub' = Tail(qsub)
                         /\ loop' = [loop EXCEPT ![l].cur = Head(qsub)]
                         /\ run' = [nrun EXCEPT
                                      ![<<"drain", Head(qsub)>>] = StartRun]
                         /\ UNCHANGED processing
                  ELSE /\ processing' = FALSE
                       /\ loop' = [loop EXCEPT ![l].st = "finished"]
                       /\ run' = nrun
                       /\ UNCHANGED <<queue, qsub>>


(***************************************************************************)
(* processVideoFromUrl, fetchVideoInfo, getTranscript, transcribeAudio.    *)
(***************************************************************************)
\* What youtube-dl --dump-json may answer, as far as getTranscript reads it:
\* subtitles.en, automatic_captions.en, categories.includes("Music").
MetaInfos ==
  [title : {"meta"}, description : {"about"}, channel : {"channel"},
   subs : BOOLEAN, caps : BOOLEAN, music : BOOLEAN]

\* path.basename(url): what follows the last "/", trailing "/" dropped.
RECURSIVE StripSlashes(_)
StripSlashes(s) ==
  IF s # <<>> /\ s[Len(s)] = "/" THEN StripSlashes(SubSeq(s, 1, Len(s) - 1))
  ELSE s

Basename(s) ==
  LET t == StripSlashes(s)
      slashes == {i \in 1..Len(t) : t[i] = "/"}
      k == IF slashes = {} THEN 0
           ELSE CHOOSE i \in slashes : \A j \in slashes : j <= i
  IN  SubSeq(t, k + 1, Len(t))

\* The record fetchVideoInfo makes up for a direct mp4 link that answers.
SynthInfo(u) ==
  [title |-> ToStr(Basename(UrlText[u])), description |-> "", channel |-> "",
   subs |-> FALSE, caps |-> FALSE, music |-> FALSE]

\* A pipeline that never takes the cached record.
CacheHitNever(cached) == FALSE

\* if (cached)
CacheHit(cached) == cached # <<>>

\* A getTranscript that looks at the automatic captions first.
TranscriptSourceCaptionsFirst(info) ==
  IF info.caps THEN "captions"
  ELSE IF info.subs THEN "subtitles"
  ELSE IF info.music THEN "music"
  ELSE "audio"

\* A getTranscript without the music check.
TranscriptSourceNoMusic(info) ==
  IF info.subs THEN "subtitles"
  ELSE IF info.caps THEN "captions"
  ELSE "audio"

\* The order in which getTranscript tries the sources.
TranscriptSource(info) ==
  IF info.subs THEN "subtitles"
  ELSE IF info.caps THEN "captions"
  ELSE IF info.music THEN "music"
  ELSE "audio"

Called(rr, op) == [rr EXCEPT !.calls = @ \cup {op}]

Fail(rr, err) == [rr EXCEPT !.pc = "failed", !.out = <<"error", err>>]

Return(rr, result) == [rr EXCEPT !.pc = "done", !.out = <<"record", result>>]

\* The transcript is there: the record is built and the cache write sent.
ToCacheSet(rr, text) ==
  [Called(rr, "cacheSet") EXCEPT !.pc = "cacheSet", !.text = text]

\* A record whose id is the identifier of the whole URL.
ResultOfUrlId(rr, u) ==
  [id |-> getVideoId(UrlText[u]), url |-> u, title |-> rr.info.title,
   source |-> rr.info.channel, description |-> rr.info.description,
   text |-> rr.text]

\* const result = {id, url, title, source, description, text}
ResultOf(rr, u) ==
  [id |-> UuidOf[u], url |-> u, title |-> rr.info.title,
   source |-> rr.info.channel, description |-> rr.info.description,
   text |-> rr.text]

\* getService('TRANSCRIPTION') has answered: with the service, or with
\* nothing, which calls records as "noService".
GotService(rr, found) ==
  IF found THEN Called(rr, "getService")
  ELSE Called(Called(rr, "getService"), "noService")

\* A transcribeAudio that goes on without the service and has no text.
AudioReadyUnchecked(rr) ==
  {[Called(GotService(rr, TRUE), "transcribe") EXCEPT !.pc = "transcribe"],
   ToCacheSet(GotService(rr, FALSE), "Transcription failed")}

\* transcribeAudio once the mp3 is there: readFileSync, getService and,
\* when the service is registered, transcribe.
AudioReady(rr) ==
  {[Called(GotService(rr, TRUE), "transcribe") EXCEPT !.pc = "transcribe"],
   Fail(GotService(rr, FALSE), "Transcription service not found")}

\* A transcribeAudio that fetches the audio whatever is in dataDir.
TranscribeAudioStartAlwaysFetching(rr, u) ==
  {[Called(Called(rr, "transcribeAudio"), "downloadAudio") EXCEPT
      !.pc = IF DirectMp4[u] THEN "audioFetch" ELSE "audio"]}

\* transcribeAudio up to its first await.
TranscribeAudioStart(rr, u) ==
  LET r1 == Called(rr, "transcribeAudio")
  IN  IF Mp3Of[u] \in files THEN AudioReady(r1)
      ELSE IF Mp4Of[u] \in files
        THEN {[Called(r1, "convertMp4ToMp3") EXCEPT !.pc = "audio"]}
      ELSE {[Called(r1, "downloadAudio") EXCEPT
               !.pc = IF DirectMp4[u] THEN "audioFetch" ELSE "audio"]}

\* getTranscript up to its first await, with the metadata just received.
GetTranscriptStart(rr, u, info) ==
  LET r1 == [Called(rr, "getTranscript") EXCEPT !.info = info]
      src == TranscriptSource(info)
  IN  IF src = "subtitles"
        THEN {[Called(r1, "downloadSRT") EXCEPT !.pc = "downloadSRT"]}
      ELSE IF src = "captions"
        THEN {[Called(r1, "downloadCaption") EXCEPT !.pc = "downloadCaption"]}
      ELSE IF src = "music" THEN {ToCacheSet(r1, "No lyrics available.")}
      ELSE TranscribeAudioStart(r1, u)

\* A pipeline that starts getTranscript without awaiting fetchVideoInfo.
ToYoutubeDlUnawaited(rr) ==
  [Called(Called(rr, "youtubeDl"), "getTranscript") EXCEPT !.pc = "youtubeDl"]

\* fetchVideoInfo sends the youtube-dl metadata request.
ToYoutubeDl(rr) == [Called(rr, "youtubeDl") EXCEPT !.pc = "youtubeDl"]

\* await runtime.cacheManager.get(cacheKey) returns.
CacheGetReturn(r) ==
  /\ run[r].pc = "cacheGet"
  /\ LET u == UrlOf(r)
         cached == cache[KeyOf[u]]
         r1 == Called(run[r], "fetchVideoInfo")
     IN  IF CacheHit(cached)
           THEN /\ Settle(r, Return(run[r], cached[1]))
                /\ UNCHANGED fetchLog
         ELSE IF DirectMp4[u]
           THEN /\ Settle(r, [r1 EXCEPT !.pc = "httpProbe"])
                /\ UNCHANGED fetchLog
         ELSE /\ Settle(r, ToYoutubeDl(r1))
              /\ fetchLog' = Append(fetchLog, r)
  /\ UNCHANGED <<subs, cache, files, media, call>>

\* How the fetch(url) of fetchVideoInfo has ended, as calls records it.
Probes == {"probeOk", "probeNotOk", "probeThrew"}

\* A fetchVideoInfo that fails when the direct link does not answer OK.
HttpProbeReturnFailingFast(r) ==
  /\ run[r].pc = "httpProbe"
  /\ \E probe \in Probes :
       LET r1 == Called(run[r], probe)
       IN  IF probe = "probeOk"
             THEN \E nr \in GetTranscriptStart(r1, UrlOf(r),
                                               SynthInfo(UrlOf(r))) :
                    Settle(r, nr)
             ELSE Settle(r, Fail(r1, "Failed to fetch video information"))
  /\ UNCHANGED <<subs, cache, files, fetchLog, media, call>>

\* The fetch(url) of fetchVideoInfo for a direct mp4 link returns with an
\* OK response; or it returns with another, or throws, and youtube-dl is
\* asked.
HttpProbeReturn(r) ==
  /\ run[r].pc = "httpProbe"
  /\ \E probe \in Probes :
       LET r1 == Called(run[r], probe)
       IN  IF probe = "probeOk"
             THEN /\ \E nr \in GetTranscriptStart(r1, UrlOf(r),
                                                  SynthInfo(UrlOf(r))) :
                       Settle(r, nr)
                  /\ UNCHANGED fetchLog
             ELSE /\ Settle(r, ToYoutubeDl(r1))
                  /\ fetchLog' = Append(fetchLog, r)
  /\ UNCHANGED <<subs, cache, files, media, call>>

\* The youtube-dl metadata request returns or throws.
YoutubeDlReturn(r, infos) ==
  /\ run[r].pc = "youtubeDl"
  /\ \/ Settle(r, Fail(run[r], "Failed to fetch video information"))
     \/ \E info \in infos :
          \E nr \in GetTranscriptStart(run[r], UrlOf(r), info) : Settle(r, nr)
  /\ UNCHANGED <<subs, cache, files, fetchLog, media, call>>

\* srtContent.split(sep): the pieces between the occurrences of sep, which
\* are taken from the left and do not overlap.
RECURSIVE SplitOn(_, _)
SplitOn(s, sep) ==
  LET hits == {i \in 1..Len(s) : HasAt(s, sep, i)}
  IN  IF hits = {} THEN <<s>>
      ELSE LET i == CHOOSE h \in hits : \A j \in hits : h <= j
           IN  <<SubSeq(s, 1, i - 1)>>
                 \o SplitOn(SubSeq(s, i + Len(sep), Len(s)), sep)

\* A slice that keeps every line.
SliceNone(ss, n) == ss

\* .slice(n)
Slice(ss, n) == SubSeq(ss, n + 1, Len(ss))

\* .join(sep)
RECURSIVE JoinWith(_, _)
JoinWith(ss, sep) ==
  IF ss = <<>> THEN <<>>
  ELSE IF Len(ss) = 1 THEN ss[1]
  ELSE ss[1] \o sep \o JoinWith(Tail(ss), sep)

\* srtContent.split("\n\n").map((block) =>
\*   block.split("\n").slice(2).join(" ")).join(" ")
parseSRT(srtContent) ==
  LET blocks == SplitOn(srtContent, <<"\n", "\n">>)
      texts == [i \in 1..Len(blocks) |->
                  JoinWith(Slice(SplitOn(blocks[i], <<"\n">>), 2), <<" ">>)]
  IN  JoinWith(texts, <<" ">>)

\* A subtitle file of two blocks, each a counter line, a time line and one
\* text line, the last block ended by a blank line.
SrtExample ==
  <<"1", "\n", "0", "0", ":", "0", "0", ":", "0", "0", ",", "0", "0", "0",
    " ", "-", "-", ">", " ", "0", "0", ":", "0", "0", ":", "0", "2", ",",
    "0", "0", "0", "\n", "H", "e", "l", "l", "o", " ", "w", "o", "r", "l",
    "d", "\n", "\n", "2", "\n", "0", "0", ":", "0", "0", ":", "0", "2",
    ",", "0", "0", "0", " ", "-", "-", ">", " ", "0", "0", ":", "0", "0",
    ":", "0", "4", ",", "0", "0", "0", "\n", "S", "e", "c", "o", "n", "d",
    " ", "l", "i", "n", "e", "\n", "\n">>

\* The body of an error page.
SrtErrorPage ==
  <<"<", "h", "t", "m", "l", ">", "\n", "<", "b", "o", "d", "y", ">", "\n",
    "N", "o", "t", " ", "F", "o", "u", "n", "d">>

\* What the subtitle URL may answer, by the kind of body.
SrtBody == ("subtitles" :> SrtExample) @@ ("error page" :> SrtErrorPage)

SrtTexts == [b \in DOMAIN SrtBody |-> ToStr(parseSRT(SrtBody[b]))]

\* parseSRT of what the subtitle URL answered, by the kind of body.
srtText(body) == SrtTexts[body]

\* A getTranscript that turns to the audio when the subtitle download throws.
DownloadSRTReturnFallingThrough(r, bodies) ==
  /\ run[r].pc = "downloadSRT"
  /\ \/ \E nr \in TranscribeAudioStart(run[r], UrlOf(r)) : Settle(r, nr)
     \/ \E body \in bodies :
          Settle(r, ToCacheSet(run[r], srtText(body)))
  /\ UNCHANGED <<subs, cache, files, fetchLog, media, call>>

\* downloadSRT: fetch throws, or answers (OK or not) and the body is parsed.
DownloadSRTReturn(r, bodies) ==
  /\ run[r].pc = "downloadSRT"
  /\ \/ Settle(r, Fail(run[r], "fetch failed"))
     \/ \E body \in bodies :
          Settle(r, ToCacheSet(run[r], srtText(body)))
  /\ UNCHANGED <<subs, cache, files, fetchLog, media, call>>

(***************************************************************************)
(* parseCaption.  A caption payload is given by what JSON.parse makes of   *)
(* it and, for an object, by its events, their segs and their utf8 texts.  *)
(* "scalar" stands for a value that is neither null nor an array where an  *)
(* array is read, "absent" for a property that is missing or falsy.        *)
(***************************************************************************)
Seg(is, utf8) == [is |-> is, utf8 |-> utf8]

Event(is, segsIs, segs) == [is |-> is, segsIs |-> segsIs, segs |-> segs]

Payload(json, eventsIs, events) ==
  [json |-> json, eventsIs |-> eventsIs, events |-> events]

CaptionPayloads ==
  {Payload("invalid", "absent", <<>>),
   Payload("null", "absent", <<>>),
   Payload("scalar", "absent", <<>>),
   Payload("object", "absent", <<>>),
   Payload("object", "scalar", <<>>),
   Payload("object", "array", <<>>),
   Payload("object", "array", <<Event("null", "absent", <<>>)>>),
   Payload("object", "array", <<Event("scalar", "absent", <<>>)>>),
   Payload("object", "array", <<Event("object", "absent", <<>>)>>),
   Payload("object", "array", <<Event("object", "scalar", <<>>)>>),
   Payload("object", "array",
           <<Event("object", "array", <<Seg("null", <<>>)>>)>>),
   Payload("object", "array",
           <<Event("object", "array", <<Seg("object", <<"h", "i">>)>>),
             Event("object", "absent", <<>>)>>),
   Payload("object", "array",
           <<Event("object", "array",
                   <<Seg("object", <<"a">>), Seg("object", <<"\n">>)>>),
             Event("object", "array",
                   <<Seg("object", <<"b", "\n">>), Seg("scalar", <<>>)>>)>>)}

ParseSentinel == "Error: Unable to parse captions"

\* Array.prototype.join(""), of strings given by their characters.
RECURSIVE Join(_)
Join(ss) == IF ss = <<>> THEN <<>> ELSE Head(ss) \o Join(Tail(ss))

\* .replace("\n", " "): the first newline only.
RECURSIVE ReplaceFirstNewline(_)
ReplaceFirstNewline(s) ==
  IF s = <<>> THEN <<>>
  ELSE IF Head(s) = "\n" THEN <<" ">> \o Tail(s)
  ELSE <<Head(s)>> \o ReplaceFirstNewline(Tail(s))

\* .filter((event) => event.segs)
EventKept(event) == event.is = "object" /\ event.segsIs # "absent"

\* seg.utf8 as join("") takes it: nothing when it is undefined.
SegText(seg) == IF seg.is = "object" THEN seg.utf8 ELSE <<>>

\* The try block of parseCaption: <<"return", text>> or <<"throw", error>>.
parseCaptionTry(content) ==
  IF content.json = "invalid" THEN <<"throw", "SyntaxError">>
  ELSE IF content.json = "null" THEN <<"throw", "TypeError">>
  ELSE IF content.json = "scalar" \/ content.eventsIs = "absent"
    THEN <<"return", ParseSentinel>>
  ELSE IF content.eventsIs = "scalar" THEN <<"throw", "TypeError">>
  ELSE IF \E i \in DOMAIN content.events : content.events[i].is = "null"
    THEN <<"throw", "TypeError">>
  ELSE LET kept == SelectSeq(content.events, EventKept)
       IN  IF \E i \in DOMAIN kept :
                \/ kept[i].segsIs = "scalar"
                \/ \E j \in DOMAIN kept[i].segs : kept[i].segs[j].is = "null"
             THEN <<"throw", "TypeError">>
           ELSE <<"return",
                  ToStr(ReplaceFirstNewline(Join(
                    [i \in DOMAIN kept |->
                       Join([j \in DOMAIN kept[i].segs |->
                               SegText(kept[i].segs[j])])])))>>

\* A parseCaption without the catch.
parseCaptionUncaught(content) == parseCaptionTry(content)

\* parseCaption: the catch answers the sentinel for whatever was thrown.
parseCaption(content) ==
  LET o == parseCaptionTry(content)
  IN  IF o[1] = "throw" THEN <<"return", ParseSentinel>> ELSE o

\* downloadCaption: fetch throws, answers not OK, or answers with a body,
\* which parseCaption turns into the transcript.
DownloadCaptionReturn(r) ==
  /\ run[r].pc = "downloadCaption"
  /\ \/ Settle(r, Fail(run[r], "fetch failed"))
     \/ Settle(r, Fail(run[r], "Failed to download caption"))
     \/ \E content \in CaptionPayloads :
          LET o == parseCaption(content)
          IN  IF o[1] = "throw" THEN Settle(r, Fail(run[r], o[2]))
              ELSE Settle(r, ToCacheSet(run[r], o[2]))
  /\ UNCHANGED <<subs, cache, files, fetchLog, media, call>>

\* downloadAudio of a direct mp4 link: fetch(url) and arrayBuffer() throw,
\* or answer (OK or not) and the body is written to the temporary mp4, on
\* which ffmpeg is started.
AudioFetchReturn(r) ==
  /\ run[r].pc = "audioFetch"
  /\ \/ /\ Settle(r, Fail(run[r], "Failed to download audio"))
        /\ UNCHANGED files
     \/ /\ files' = files \cup {TmpOf[UrlOf(r)]}
        /\ Settle(r, [Called(run[r], "ffmpeg") EXCEPT !.pc = "audio"])
  /\ UNCHANGED <<subs, cache, fetchLog, media, call>>

\* The "end" handler of downloadAudio for a direct mp4 link:
\* fs.unlinkSync(tempMp4File), then resolve().  <<the files after it,
\* whether resolve was reached>>: unlinkSync throws when the file is gone.
EndHandler(u, fs) ==
  IF TmpOf[u] \in fs THEN <<fs \ {TmpOf[u]}, TRUE>> ELSE <<fs, FALSE>>

\* The await of convertMp4ToMp3 or of downloadAudio in transcribeAudio ends:
\* youtube-dl or ffmpeg has failed, or has written the mp3.  When the "end"
\* handler throws, the promise is not resolved there: the run stays on its
\* await, or fails if the library reports the throw as an "error".
AudioReturn(r) ==
  /\ run[r].pc = "audio"
  /\ LET u == UrlOf(r)
         viaTemp == "ffmpeg" \in run[r].calls
         mp3 == files \cup {Mp3Of[u]}
         end == IF viaTemp THEN EndHandler(u, mp3) ELSE <<mp3, TRUE>>
     IN  \/ /\ Settle(r, Fail(run[r],
                   IF "downloadAudio" \in run[r].calls
                     THEN "Failed to download audio" ELSE "ffmpeg error"))
            /\ UNCHANGED files
         \/ /\ files' = end[1]
            /\ IF end[2]
                 THEN \E nr \in AudioReady(run[r]) : Settle(r, nr)
                 ELSE \/ Settle(r, [run[r] EXCEPT !.pc = "hung"])
                      \/ Settle(r, Fail(run[r], "Failed to download audio"))
  /\ UNCHANGED <<subs, cache, fetchLog, media, call>>

\* transcriptionService.transcribe returns a text, nothing, or throws.
TranscribeReturn(r) ==
  /\ run[r].pc = "transcribe"
  /\ \/ Settle(r, Fail(run[r], "transcribe failed"))
     \/ \E transcript \in {"speech", ""} :
          Settle(r, ToCacheSet(run[r],
            IF transcript # "" THEN transcript ELSE "Transcription failed"))
  /\ UNCHANGED <<subs, cache, files, fetchLog, media, call>>

\* await runtime.cacheManager.set(cacheKey, result) returns.
CacheSetReturn(r) ==
  /\ run[r].pc = "cacheSet"
  /\ LET result == ResultOf(run[r], UrlOf(r))
     IN  /\ cache' = [cache EXCEPT ![KeyOf[UrlOf(r)]] = <<result>>]
         /\ Settle(r, Return(run[r], result))
  /\ UNCHANGED <<subs, files, fetchLog, media, call>>

\* The cache store drops a record (its eviction policy is its own).
Evict(k) ==
  /\ cache[k] # <<>>
  /\ cache' = [cache EXCEPT ![k] = <<>>]
  /\ UNCHANGED <<queue, processing, qsub, subs, loop, caller, run, files,
                 fetchLog, media, call>>

(***************************************************************************)
(* downloadMedia(url) and downloadVideo(videoInfo), which reads            *)
(* videoInfo.webpage_url: the mp4 of the URL in dataDir.  A call is        *)
(* [op, url, pc, fetched, out]: fetched says that the call invoked         *)
(* youtube-dl, out is <<>>, <<"path", file>> or <<"error", message>>.      *)
(***************************************************************************)
MediaOps == {"downloadMedia", "downloadVideo"}

\* An existence check that never finds the file.
existsSyncNever(path, fs) == FALSE

\* fs.existsSync(outputFile)
existsSync(path, fs) == path \in fs

\* The call up to its first await: the file is there and is returned, or
\* youtube-dl is started.
DownloadStart(op, url, max) ==
  /\ Len(media) < max
  /\ media' = Append(media,
       IF existsSync(Mp4Of[url], files)
         THEN [op |-> op, url |-> url, pc |-> "done", fetched |-> FALSE,
               out |-> <<"path", Mp4Of[url]>>]
         ELSE [op |-> op, url |-> url, pc |-> "youtubeDl", fetched |-> TRUE,
               out |-> <<>>])
  /\ UNCHANGED <<queue, processing, qsub, subs, loop, caller, run, cache,
                 files, fetchLog, call>>

\* youtube-dl has written the file, or has failed.
DownloadReturn(i) ==
  /\ i \in DOMAIN media
  /\ media[i].pc = "youtubeDl"
  /\ \/ /\ files' = files \cup {Mp4Of[media[i].url]}
        /\ media' = [media EXCEPT ![i].pc = "done",
                        ![i].out = <<"path", Mp4Of[media[i].url]>>]
     \/ /\ media' = [media EXCEPT ![i].pc = "failed",
                        ![i].out = <<"error",
                          IF media[i].op = "downloadMedia"
                            THEN "Failed to download media"
                            ELSE "Failed to download video">>]
        /\ UNCHANGED files
  /\ UNCHANGED <<queue, processing, qsub, subs, loop, caller, run, cache,
                 fetchLog, call>>

(***************************************************************************)
(* A helper called by itself: the state keeps the argument and the result. *)
(***************************************************************************)
IdInputs == Strings({"a", "y", "/"}, MaxIdLen)

\* The first call, or the call before it once more.
MayCall(fn, s) == call.fn = "none" \/ (call.fn = fn /\ call.arg = s)

GetVideoIdCall(s) ==
  /\ MayCall("getVideoId", s)
  /\ call' = [fn |-> "getVideoId", arg |-> s, ret |-> getVideoId(s)]
  /\ UNCHANGED <<queue, processing, qsub, subs, loop, caller, run, cache,
                 files, fetchLog, media>>

SrtInputs == Strings({"a", "\n"}, MaxSrtLen) \cup {SrtExample}

ParseSRTCall(s) ==
  /\ MayCall("parseSRT", s)
  /\ call' = [fn |-> "parseSRT", arg |-> s, ret |-> parseSRT(s)]
  /\ UNCHANGED <<queue, processing, qsub, subs, loop, caller, run, cache,
                 files, fetchLog, media>>

(***************************************************************************)
(* Spec: the queue.  Up to MaxSubs calls of processVideo, for videos that  *)
(* have manual subtitles or are music videos.                              *)
(***************************************************************************)
QueueUrls == {"ytA", "rawY", "rawW"}

QueueInfos == {i \in MetaInfos : i.subs # i.music /\ ~i.caps}

SrtBodies == {"subtitles", "error page"}

Next ==
  \/ \E url \in QueueUrls : Submit(url, MaxSubs)
  \/ \E s \in SubIds : CheckQueue(s)
  \/ \E r \in RunIds : CacheGetReturn(r)
  \/ \E r \in RunIds : YoutubeDlReturn(r, QueueInfos)
  \/ \E r \in RunIds : DownloadSRTReturn(r, {"subtitles"})
  \/ \E r \in RunIds : CacheSetReturn(r)
  \/ \E k \in CacheKeys : Evict(k)

Spec == Init /\ [][Next]_vars

(***************************************************************************)
(* SpecPipeline: one call of processVideo, which runs the pipeline twice   *)
(* (the drain loop's run and the caller's own), with every URL and every   *)
(* answer of the collaborators.                                            *)
(***************************************************************************)
NextPipeline ==
  \/ \E url \in Urls : subs = <<>> /\ Submit(url, MaxSubs)
  \/ \E r \in RunIds : CacheGetReturn(r)
  \/ \E r \in RunIds : HttpProbeReturn(r)
  \/ \E r \in RunIds : YoutubeDlReturn(r, MetaInfos)
  \/ \E r \in RunIds : DownloadSRTReturn(r, SrtBodies)
  \/ \E r \in RunIds : DownloadCaptionReturn(r)
  \/ \E r \in RunIds : AudioFetchReturn(r)
  \/ \E r \in RunIds : AudioReturn(r)
  \/ \E r \in RunIds : TranscribeReturn(r)
  \/ \E r \in RunIds : CacheSetReturn(r)
  \/ \E k \in CacheKeys : Evict(k)

SpecPipeline == Init /\ [][NextPipeline]_vars

(***************************************************************************)
(* SpecRelease: up to MaxRelease calls of processVideo for two URLs, music *)
(* videos; youtube-dl answers or fails.                                    *)
(***************************************************************************)
ReleaseUrls == {"ytA", "rawY"}

ReleaseInfos == {i \in MetaInfos : i.music /\ ~i.subs /\ ~i.caps}

NextRelease ==
  \/ \E url \in ReleaseUrls : Submit(url, MaxRelease)
  \/ \E s \in SubIds : CheckQueue(s)
  \/ \E r \in RunIds : CacheGetReturn(r)
  \/ \E r \in RunIds : YoutubeDlReturn(r, ReleaseInfos)
  \/ \E r \in RunIds : CacheSetReturn(r)

SpecRelease == Init /\ [][NextRelease]_vars

(***************************************************************************)
(* SpecAudio: one call of processVideo for a video without subtitles,      *)
(* captions or music category, and up to MaxAudioMedia calls of            *)
(* downloadMedia or downloadVideo, which may leave the mp4 in dataDir      *)
(* before transcribeAudio looks for it.                                    *)
(***************************************************************************)
AudioUrls == {"ytA", "mp4X"}

AudioInfos == {i \in MetaInfos : ~i.subs /\ ~i.caps /\ ~i.music}

NextAudio ==
  \/ \E op \in MediaOps, url \in AudioUrls :
       DownloadStart(op, url, MaxAudioMedia)
  \/ \E i \in 1..MaxAudioMedia : DownloadReturn(i)
  \/ \E url \in AudioUrls : subs = <<>> /\ Submit(url, MaxSubs)
  \/ \E r \in RunIds : CacheGetReturn(r)
  \/ \E r \in RunIds : HttpProbeReturn(r)
  \/ \E r \in RunIds : YoutubeDlReturn(r, AudioInfos)
  \/ \E r \in RunIds : AudioFetchReturn(r)
  \/ \E r \in RunIds : AudioReturn(r)
  \/ \E r \in RunIds : TranscribeReturn(r)
  \/ \E r \in RunIds : CacheSetReturn(r)

SpecAudio == Init /\ [][NextAudio]_vars

(***************************************************************************)
(* SpecMedia: up to MaxMedia calls of downloadMedia and downloadVideo, in  *)
(* any interleaving.                                                       *)
(***************************************************************************)
MediaUrls == {"ytA", "mp4X"}

NextMedia ==
  \/ \E op \in MediaOps, url \in MediaUrls : DownloadStart(op, url, MaxMedia)
  \/ \E i \in 1..MaxMedia : DownloadReturn(i)

SpecMedia == Init /\ [][NextMedia]_vars

(***************************************************************************)
(* SpecHelpers: the pure helpers, called with every input of a bounded     *)
(* set.                                                                    *)
(***************************************************************************)
NextHelpers ==
  \/ \E s \in IdInputs : GetVideoIdCall(s)
  \/ \E s \in SrtInputs : ParseSRTCall(s)

SpecHelpers == Init /\ [][NextHelpers]_vars


(***************************************************************************)
(* The steps of the queue that the program takes by itself: an awaited     *)
(* external call returns or throws, a timer fires.  (A new call of         *)
(* processVideo and an eviction are the environment's.)                    *)
(***************************************************************************)
Progress ==
  \/ \E s \in SubIds : CheckQueue(s)
  \/ \E r \in RunIds : CacheGetReturn(r)
  \/ \E r \in RunIds : YoutubeDlReturn(r, QueueInfos)
  \/ \E r \in RunIds : DownloadSRTReturn(r, {"subtitles"})
  \/ \E r \in RunIds : CacheSetReturn(r)

(***************************************************************************)
(* SpecNoThrow: the queue when no pipeline run throws and every external   *)
(* call returns: the metadata request and the subtitle download answer,    *)
(* and every awaited call and every timer that is due gets its turn.       *)
(***************************************************************************)
Returns(r) == run'[r].pc # "failed"

ProgressNoThrow ==
  \/ \E s \in SubIds : CheckQueue(s)
  \/ \E r \in RunIds : CacheGetReturn(r)
  \/ \E r \in RunIds : YoutubeDlReturn(r, QueueInfos) /\ Returns(r)
  \/ \E r \in RunIds : DownloadSRTReturn(r, {"subtitles"}) /\ Returns(r)
  \/ \E r \in RunIds : CacheSetReturn(r)

NextNoThrow ==
  \/ \E url \in QueueUrls : Submit(url, MaxSubs)
  \/ \E s \in SubIds : CheckQueue(s)
  \/ \E r \in RunIds : CacheGetReturn(r)
  \/ \E r \in RunIds : YoutubeDlReturn(r, QueueInfos) /\ Returns(r)
  \/ \E r \in RunIds : DownloadSRTReturn(r, {"subtitles"}) /\ Returns(r)
  \/ \E r \in RunIds : CacheSetReturn(r)
  \/ \E k \in CacheKeys : Evict(k)

SpecNoThrow == Init /\ [][NextNoThrow]_vars /\ WF_vars(ProgressNoThrow)

(***************************************************************************)
(* Vocabulary of the properties.                                           *)
(***************************************************************************)
\* The run has been started and has neither returned nor thrown.
InProgress(r) == run[r].pc \notin {"none", "done", "failed"}

\* The processQueue invocation of call l is in its while loop.
DrainActive(l) == loop[l].st = "awaiting"

Settled(s) == caller[s].st \in {"resolved", "rejected"}

(***************************************************************************)
(* C1.  Failure isolation of the drain loop: when the pipeline run the     *)
(* drain loop performs for a dequeued URL throws, the drain loop goes on   *)
(* with the next entry, so an entry that is pending then (pushed before or *)
(* after the failure) still has a drain loop that will dequeue it.         *)
(***************************************************************************)
C1_DrainSurvivesFailure ==
  \A d \in SubIds :
    (run[<<"drain", d>>].pc = "failed" /\ queue # <<>>)
      => \E l \in SubIds : DrainActive(l)

(***************************************************************************)
(* C2.  Single-flight pipeline: at most one execution of                   *)
(* processVideoFromUrl is in progress at any moment.                       *)
(***************************************************************************)
C2_SingleFlight == Cardinality({r \in RunIds : InProgress(r)}) <= 1


(***************************************************************************)
(* C3.  FIFO drain: at most one drain loop is active; the pending entries  *)
(* are in submission order and every one of them was submitted after every *)
(* entry dequeued so far (the loop takes the head, a submission appends at *)
(* the tail); and the drain loop starts on an entry only when its run for  *)
(* every entry dequeued before has finished.                               *)
(***************************************************************************)
Dequeued == {d \in SubIds : run[<<"drain", d>>].pc # "none"}

C4_EverySubmissionSettles ==
  (\E s \in SubIds : caller[s].st # "none" /\ ~Settled(s))
    => ENABLED <<Progress>>_vars


(***************************************************************************)
(* C5.  Cache idempotence: once a run for a URL has completed with its     *)
(* record written to the cache, and the store still holds that record, a   *)
(* run for the same URL whose cache lookup is answered then returns        *)
(* exactly that record, and has called neither fetchVideoInfo nor          *)
(* getTranscript nor the cache write; the cache stays as it is.            *)
(***************************************************************************)
\* r0 has completed, has written its record, and the store holds it under
\* the key of run r, a run for the same URL.
StoredBy(r0, r) ==
  /\ r0 # r
  /\ run[r0].pc = "done"
  /\ "cacheSet" \in run[r0].calls
  /\ UrlOf(r0) = UrlOf(r)
  /\ cache[KeyOf[UrlOf(r)]] = <<run[r0].out[2]>>

C5_CacheIdempotence ==
  [][\A r \in RunIds :
       (/\ run[r].pc = "cacheGet"
        /\ run'[r].pc # "cacheGet"
        /\ \E r0 \in RunIds : StoredBy(r0, r))
       => /\ run'[r].pc = "done"
          /\ \E r0 \in RunIds : StoredBy(r0, r) /\ run'[r].out = run[r0].out
          /\ run'[r].calls = {}
          /\ cache' = cache
          /\ fetchLog' = fetchLog]_vars

\* A run has returned the record an earlier run for the same URL stored.
C5_Witness ==
  \E r, r0 \in RunIds :
    /\ run[r].pc = "done"
    /\ run[r].calls = {}
    /\ StoredBy(r0, r)
    /\ run[r].out = run[r0].out

(***************************************************************************)
(* C6.  One pipeline execution per submission: after n calls of            *)
(* processVideo the media fetcher has been asked for metadata at most n    *)
(* times.                                                                  *)
(***************************************************************************)
C6_OneFetchPerSubmission == Len(fetchLog) <= Len(subs)

(***************************************************************************)
(* C7.  Observed fetch order: when the submitted URLs are distinct and no  *)
(* run has hit the cache, the metadata requests the media fetcher has seen *)
(* are in submission order: none for an earlier-submitted URL comes after  *)
(* one for a later-submitted URL.                                          *)
(***************************************************************************)
\* The run returned the cached record.
CacheHitRun(r) == run[r].pc = "done" /\ "fetchVideoInfo" \notin run[r].calls

C7_FetchOrder ==
  (/\ \A i, j \in 1..Len(subs) : i # j => subs[i] # subs[j]
   /\ \A r \in RunIds : ~CacheHitRun(r))
  => \A i, j \in 1..Len(fetchLog) :
       i < j => fetchLog[i][2] <= fetchLog[j][2]

(***************************************************************************)
(* C8.  Error reaches the submitting caller: when the drain loop's         *)
(* processing of a queue entry has failed, the promise of the processVideo *)
(* call that submitted the entry is not resolved with a record.            *)
(***************************************************************************)
C8_ErrorReachesCaller ==
  \A s \in SubIds :
    run[<<"drain", s>>].pc = "failed" => caller[s].st # "resolved"

(***************************************************************************)
(* C9.  Transcript source priority: manual subtitles, automatic captions,  *)
(* Music, audio transcription, the first applicable one being the only one *)
(* used.  A run whose metadata has subtitles.en has called downloadSRT and *)
(* neither downloadCaption nor transcribeAudio, whether or not the         *)
(* metadata has automatic_captions.en too; one with captions and no        *)
(* subtitles has called downloadCaption only; a Music one neither; any     *)
(* other transcribeAudio only.                                             *)
(***************************************************************************)
SourceCalls == {"downloadSRT", "downloadCaption", "transcribeAudio"}

C9_SourcePriority ==
  \A r \in RunIds :
    "getTranscript" \in run[r].calls =>
      LET i == run[r].info
          used == run[r].calls \cap SourceCalls
      IN  /\ i.subs => used = {"downloadSRT"}
          /\ (~i.subs /\ i.caps) => used = {"downloadCaption"}
          /\ (~i.subs /\ ~i.caps /\ i.music) => used = {}
          /\ (~i.subs /\ ~i.caps /\ ~i.music) => used = {"transcribeAudio"}

\* A run whose metadata had both has finished on the manual subtitles.
C9_Witness ==
  \E r \in RunIds :
    /\ run[r].pc = "done"
    /\ run[r].info.subs /\ run[r].info.caps
    /\ "downloadSRT" \in run[r].calls
    /\ run[r].text = srtText("subtitles")

(***************************************************************************)
(* C10.  No fall-through on download failure: when the metadata has        *)
(* subtitles.en or automatic_captions.en the run never leaves the download *)
(* of that resource for another source, and when the download throws the   *)
(* run has failed with that error; transcribeAudio is called in a run only *)
(* when the metadata has neither of the two and is not Music.              *)
(***************************************************************************)
DownloadErrors ==
  {<<"error", "fetch failed">>, <<"error", "Failed to download caption">>}

C10_NoFallThrough ==
  \A r \in RunIds :
    LET i == run[r].info
    IN  /\ "transcribeAudio" \in run[r].calls
             => (~i.subs /\ ~i.caps /\ ~i.music)
        /\ (i.subs \/ i.caps) =>
             /\ run[r].pc \in {"downloadSRT", "downloadCaption", "cacheSet",
                               "done", "failed"}
             /\ run[r].pc = "failed" => run[r].out \in DownloadErrors
             /\ run[r].calls \cap {"downloadAudio", "convertMp4ToMp3",
                                    "transcribe"} = {}

\* A run whose subtitle download threw has failed with that error.
C10_Witness ==
  \E r \in RunIds :
    /\ run[r].info.subs
    /\ run[r].pc = "failed"
    /\ run[r].out = <<"error", "fetch failed">>
    /\ "transcribeAudio" \notin run[r].calls

(***************************************************************************)
(* C11.  Music short-circuit: a run whose metadata has neither             *)
(* subtitles.en nor automatic_captions.en and has the category Music has,  *)
(* from getTranscript on, the transcript "No lyrics available." and has    *)
(* called neither transcribeAudio nor the audio download, the transcoder   *)
(* or the transcription service; it goes to the cache write like any       *)
(* other, and the write stores the record with this text, which the run    *)
(* returns.                                                                *)
(***************************************************************************)
AudioCalls == {"transcribeAudio", "downloadAudio", "convertMp4ToMp3",
               "transcribe"}

\* rr has resolved its transcript by the music check.
MusicRun(rr) ==
  /\ "getTranscript" \in rr.calls
  /\ ~rr.info.subs /\ ~rr.info.caps /\ rr.info.music

C11_MusicShortCircuit ==
  [][\A r \in RunIds :
       MusicRun(run'[r]) =>
         /\ run'[r].text = "No lyrics available."
         /\ run'[r].calls \cap AudioCalls = {}
         /\ "cacheSet" \in run'[r].calls
         /\ run'[r].pc \in {"cacheSet", "done"}
         /\ (run[r].pc = "cacheSet" /\ run'[r].pc = "done") =>
              /\ cache'[KeyOf[UrlOf(r)]] = <<run'[r].out[2]>>
              /\ run'[r].out[1] = "record"
              /\ run'[r].out[2].text = "No lyrics available."
              /\ run'[r].out[2].title = run[r].info.title]_vars

\* A music run has returned, and the store holds its record.
C11_Witness ==
  \E r \in RunIds :
    /\ MusicRun(run[r])
    /\ run[r].pc = "done"
    /\ run[r].out[2].text = "No lyrics available."
    /\ cache[KeyOf[UrlOf(r)]] = <<run[r].out[2]>>

(***************************************************************************)
(* C12.  Fallback and missing capability: a run whose metadata has neither *)
(* subtitles.en nor automatic_captions.en nor the category Music has       *)
(* called transcribeAudio from getTranscript on.  A run in which           *)
(* getService('TRANSCRIPTION') answered nothing has failed with            *)
(* "Transcription service not found", has called neither transcribe nor    *)
(* the cache write, and, being the run that settles the promise of its     *)
(* processVideo call, has rejected it with that error.                     *)
(***************************************************************************)
ServiceNotFound == <<"error", "Transcription service not found">>

C12_FallbackAndMissingService ==
  \A r \in RunIds :
    /\ ("getTranscript" \in run[r].calls
          /\ ~run[r].info.subs /\ ~run[r].info.caps /\ ~run[r].info.music)
         => "transcribeAudio" \in run[r].calls
    /\ "noService" \in run[r].calls =>
         /\ run[r].pc = "failed"
         /\ run[r].out = ServiceNotFound
         /\ "transcribeAudio" \in run[r].calls
         /\ run[r].calls \cap {"transcribe", "cacheSet"} = {}
         /\ r[1] = "caller" =>
              caller[r[2]] = [st |-> "rejected", value |-> ServiceNotFound]

\* The service is missing: both runs of the call have failed on it, the
\* caller is rejected and nothing is in the cache.
C12_Witness ==
  /\ Len(subs) = 1
  /\ "noService" \in run[<<"drain", 1>>].calls
  /\ "noService" \in run[<<"caller", 1>>].calls
  /\ caller[1].st = "rejected"
  /\ \A k \in CacheKeys : cache[k] = <<>>

(***************************************************************************)
(* C13.  Caption parse recovery: parseCaption never throws; for every      *)
(* payload that is not valid JSON, or has no events, or whose events are   *)
(* not a structure the parser can walk (events or segs that are not        *)
(* arrays, a null event or seg) it returns "Error: Unable to parse         *)
(* captions"; and a run whose caption text is that sentinel goes on to the *)
(* cache write, which stores the record with the sentinel as text, and     *)
(* returns that record.                                                    *)
(***************************************************************************)
\* The payload is a JSON object whose events are an array without a null
\* event, every segs that is there an array without a null seg.
UsableEvents(c) ==
  /\ c.json = "object"
  /\ c.eventsIs = "array"
  /\ \A i \in DOMAIN c.events :
       /\ c.events[i].is # "null"
       /\ c.events[i].segsIs # "scalar"
       /\ \A j \in DOMAIN c.events[i].segs : c.events[i].segs[j].is # "null"

C13_CaptionParseRecovery ==
  [][/\ \A c \in CaptionPayloads :
          /\ parseCaption(c)[1] = "return"
          /\ ~UsableEvents(c) => parseCaption(c)[2] = ParseSentinel
     /\ \A r \in RunIds :
          (run[r].pc = "downloadCaption" /\ run'[r].pc # "downloadCaption")
            => \/ run'[r].out \in {<<"error", "fetch failed">>,
                                   <<"error", "Failed to download caption">>}
               \/ run'[r].pc = "cacheSet"
     /\ \A r \in RunIds :
          ("downloadCaption" \in run'[r].calls
             /\ run'[r].text = ParseSentinel)
            => /\ run'[r].pc \in {"cacheSet", "done"}
               /\ (run[r].pc = "cacheSet" /\ run'[r].pc = "done") =>
                    /\ run'[r].out[1] = "record"
                    /\ run'[r].out[2].text = ParseSentinel
                    /\ cache'[KeyOf[UrlOf(r)]] = <<run'[r].out[2]>>]_vars

\* A run whose caption payload could not be parsed has returned the record
\* with the sentinel, and the store holds it.
C13_Witness ==
  \E r \in RunIds :
    /\ "downloadCaption" \in run[r].calls
    /\ run[r].pc = "done"
    /\ run[r].out[2].text = ParseSentinel
    /\ cache[KeyOf[UrlOf(r)]] = <<run[r].out[2]>>

(***************************************************************************)
(* C14.  Cache key derivation: the key under which a run of                *)
(* processVideoFromUrl looks up and writes the cache is content/video/<id> *)
(* with <id> the identifier of the video ID the pattern captures in the    *)
(* URL when the pattern matches, and the identifier of the URL string      *)
(* itself when it does not.                                                *)
(***************************************************************************)
\* What the identifier is derived from.
Canonical(url) ==
  IF MatchVideoId(url) # <<>> THEN MatchVideoId(url) ELSE url

C14_CacheKeyDerivation ==
  \A r \in RunIds :
    run[r].pc # "none" =>
      KeyOf[UrlOf(r)] =
        <<"content/video">> \o getVideoId(Canonical(UrlText[UrlOf(r)]))

(***************************************************************************)
(* C15.  Scoped temp-file cleanup: the temporary mp4 that downloadAudio    *)
(* writes for a direct .mp4 URL exists only while a downloadAudio for that *)
(* URL is converting it; once downloadAudio has returned or thrown, after  *)
(* a conversion that ended or failed, the file is gone.                    *)
(***************************************************************************)
\* Run r is in downloadAudio, between writing the temporary mp4 and the end
\* of the conversion.
Converting(r) == run[r].pc = "audio" /\ "ffmpeg" \in run[r].calls

C15_TempFileCleanup ==
  \A u \in Urls :
    TmpOf[u] \in files =>
      \E r \in RunIds : run[r].pc # "none" /\ UrlOf(r) = u /\ Converting(r)

(***************************************************************************)
(* C16.  Idempotent local-artifact reuse.  As claimed, for calls in any    *)
(* interleaving: youtube-dl is invoked at most once per URL.  As the code  *)
(* has it: a call of downloadMedia or downloadVideo that starts when an    *)
(* earlier call for the same URL has returned its file invokes nothing and *)
(* returns the same path <dataDir>/<id>.mp4; and every call that returns,  *)
(* returns that path.                                                      *)
(***************************************************************************)
\* The calls for url that invoked youtube-dl.
Fetches(url) == {i \in DOMAIN media : media[i].url = url /\ media[i].fetched}

C16_AtMostOneFetch == \A url \in Urls : Cardinality(Fetches(url)) <= 1

C16_ReuseAfterSuccess ==
  [][/\ Len(media') = Len(media) + 1 =>
          LET c == media'[Len(media')]
          IN  (\E i \in DOMAIN media :
                 media[i].url = c.url /\ media[i].pc = "done")
              => /\ ~c.fetched
                 /\ c.pc = "done"
                 /\ c.out = <<"path", Mp4Of[c.url]>>
     /\ \A i \in DOMAIN media' :
          media'[i].pc = "done" =>
            media'[i].out = <<"path", Mp4Of[media'[i].url]>>]_vars

\* Two calls for one URL, one after the other: the first fetched the file,
\* the second returned it without a fetch.
C16_Witness ==
  \E i, j \in DOMAIN media :
    /\ i < j
    /\ media[i].url = media[j].url
    /\ media[i].pc = "done" /\ media[i].fetched
    /\ media[j].pc = "done" /\ ~media[j].fetched
    /\ media[j].out = media[i].out

(***************************************************************************)
(* C17.  Same-URL callers share one completion: when a processVideo call   *)
(* for a URL comes while the drain loop is still at work on an earlier     *)
(* call for the same URL (its processQueue returns at the guard), and both *)
(* promises are settled, they are settled alike: both resolved with the    *)
(* same record, or both rejected with the same error.                      *)
(***************************************************************************)
\* Call t came while a drain loop was active.
CameWhilePending(t) == loop[t].st = "returned"

C17_SharedCompletion ==
  \A s, t \in SubIds :
    (/\ s < t /\ t <= Len(subs)
     /\ subs[s] = subs[t]
     /\ CameWhilePending(t)
     /\ Settled(s) /\ Settled(t))
    => caller[s] = caller[t]

(***************************************************************************)
(* C18.  Non-OK subtitle or caption download is an error: no run has for   *)
(* its transcript the text made of the body of a non-OK response, and the  *)
(* cache holds no record with such a text.                                 *)
(***************************************************************************)
\* What parseSRT makes of the body of a non-OK response.
ErrorPageText == srtText("error page")

C18_NonOkDownloadFails ==
  /\ \A r \in RunIds : run[r].text # ErrorPageText
  /\ \A k \in CacheKeys : cache[k] = <<>> \/ cache[k][1].text # ErrorPageText

(***************************************************************************)
(* C19.  Direct-mp4 metadata: fetchVideoInfo fetches the URL itself        *)
(* exactly when it ends in .mp4 or contains .mp4?.  When that fetch        *)
(* answers OK the metadata is the made-up record (title the basename of    *)
(* the URL, description and channel empty) and youtube-dl is not asked;    *)
(* when it answers not OK or throws, youtube-dl is asked; and a run fails  *)
(* with "Failed to fetch video information" only after asking youtube-dl.  *)
(***************************************************************************)
FetchError == <<"error", "Failed to fetch video information">>

C19_DirectMp4Metadata ==
  \A r \in RunIds :
    LET c == run[r].calls
    IN  /\ c \cap Probes # {} => DirectMp4[UrlOf(r)]
        /\ ("fetchVideoInfo" \in c /\ DirectMp4[UrlOf(r)])
             => (run[r].pc = "httpProbe" /\ c \cap Probes = {})
                \/ Cardinality(c \cap Probes) = 1
        /\ "probeOk" \in c =>
             /\ "youtubeDl" \notin c
             /\ "getTranscript" \in c
             /\ run[r].info.title = ToStr(Basename(UrlText[UrlOf(r)]))
             /\ run[r].info.description = "" /\ run[r].info.channel = ""
             /\ run[r].out # FetchError
        /\ c \cap {"probeNotOk", "probeThrew"} # {} => "youtubeDl" \in c
        /\ run[r].out = FetchError =>
             "youtubeDl" \in c /\ "getTranscript" \notin c

\* For the direct link, one run got an OK answer and has returned the
\* record titled x.mp4; in the other the fetch threw, youtube-dl was asked
\* and has failed.
C19_Witness ==
  \E r, q \in RunIds :
    /\ "probeOk" \in run[r].calls
    /\ run[r].pc = "done"
    /\ run[r].out[2].title = "x.mp4"
    /\ "probeThrew" \in run[q].calls
    /\ run[q].out = FetchError

(***************************************************************************)
(* C20.  Strict step order within one run: a run that misses the cache is  *)
(* in one step at a time, in the order cache lookup, metadata fetch,       *)
(* transcript resolution, cache write.  Nothing is called while the lookup *)
(* is awaited; getTranscript is called in the step in which the metadata   *)
(* fetch completes and not before; the cache write is sent in the step in  *)
(* which the transcript is there and not before.                           *)
(***************************************************************************)
MetadataSteps == {"httpProbe", "youtubeDl"}

TranscriptSteps ==
  {"downloadSRT", "downloadCaption", "audioFetch", "audio", "transcribe",
   "hung"}

\* The steps rr has started, by what it is awaiting and has called.
StepOrder(rr) ==
  /\ rr.pc = "cacheGet" => rr.calls = {}
  /\ rr.pc \in MetadataSteps =>
       "fetchVideoInfo" \in rr.calls
         /\ rr.calls \cap {"getTranscript", "cacheSet"} = {}
  /\ rr.pc \in TranscriptSteps =>
       {"fetchVideoInfo", "getTranscript"} \subseteq rr.calls
         /\ "cacheSet" \notin rr.calls
  /\ rr.pc = "cacheSet" =>
       {"fetchVideoInfo", "getTranscript", "cacheSet"} \subseteq rr.calls
  /\ "cacheSet" \in rr.calls => rr.pc \in {"cacheSet", "done"}

C20_StepOrder ==
  [][\A r \in RunIds :
       LET new == run'[r].calls \ run[r].calls
       IN  /\ StepOrder(run'[r])
           /\ "fetchVideoInfo" \in new => run[r].pc = "cacheGet"
           /\ "getTranscript" \in new => run[r].pc \in MetadataSteps
           /\ "cacheSet" \in new =>
                /\ run[r].pc \in MetadataSteps \cup TranscriptSteps
                /\ "getTranscript" \in run'[r].calls
           /\ (run[r].pc = "cacheSet" /\ run'[r].pc # "cacheSet") =>
                run'[r].pc = "done"]_vars

\* A run has gone through the four steps and returned what it wrote.
C20_Witness ==
  \E r \in RunIds :
    /\ run[r].pc = "done"
    /\ {"fetchVideoInfo", "youtubeDl", "getTranscript", "downloadSRT",
        "cacheSet"} \subseteq run[r].calls
    /\ run[r].out[1] = "record"

(***************************************************************************)
(* C21.  The identity resolver is total and deterministic: every call of   *)
(* getVideoId, the empty string included, returns an identifier of one or  *)
(* more characters, all of them among 0-9 and a-z; a call with the         *)
(* argument of the call before returns the same identifier.                *)
(***************************************************************************)
IdChars == {Digits36[i] : i \in 1..Len(Digits36)}

C21_IdentityResolver ==
  [][call'.fn = "getVideoId" =>
       /\ Len(call'.ret) >= 1
       /\ \A i \in 1..Len(call'.ret) : call'.ret[i] \in IdChars
       /\ call'.arg = <<>> => call'.ret = <<"0">>
       /\ (call.fn = "getVideoId" /\ call.arg = call'.arg)
            => call'.ret = call.ret]_vars

\* A call with a string whose 32-bit hash is negative.
C21_Witness ==
  /\ call.fn = "getVideoId"
  /\ Len(call.arg) = MaxIdLen
  /\ HashFrom(call.arg, 1, 0) < 0
  /\ Len(call.ret) >= 1

(***************************************************************************)
(* C22.  Caller release condition.  As claimed: the caller's own run       *)
(* starts, and its promise is settled, only in a step after which the      *)
(* queue has no entry equal to its URL.  As the code has it: the caller's  *)
(* own run starts only in such a step, the promise is not settled before   *)
(* that run has started, and a caller that is polling stays polling over   *)
(* every step before and after which the queue has an entry equal to its   *)
(* URL (so of two calls for one URL that both wait, the first is released  *)
(* only when the entry of the second has been dequeued); once the run has  *)
(* started a later push of the same URL does not hold it back.             *)
(***************************************************************************)
\* The pending queue q holds an entry equal to url.
HasEntry(q, url) == url \in {q[i] : i \in 1..Len(q)}

\* The own run of call s starts in this step.
Released(s) ==
  run[<<"caller", s>>].pc = "none" /\ run'[<<"caller", s>>].pc # "none"

C22_SettledOnlyWhenNotQueued ==
  [][\A s \in 1..Len(subs') :
       /\ Released(s) => ~HasEntry(queue', subs'[s])
       /\ (~Settled(s) /\ caller'[s].st \in {"resolved", "rejected"})
            => ~HasEntry(queue', subs'[s])]_vars

C22_ReleaseCondition ==
  [][\A s \in 1..Len(subs') :
       /\ Released(s) => ~HasEntry(queue', subs'[s])
       /\ run'[<<"caller", s>>].pc = "none" =>
            caller'[s].st \notin {"resolved", "rejected"}
       /\ (/\ caller[s].st = "polling"
           /\ HasEntry(queue, subs'[s])
           /\ HasEntry(queue', subs'[s]))
          => caller'[s].st = "polling"]_vars

\* Calls 2 and 3 are for one URL and both waited; the entry of call 2 has
\* been dequeued, that of call 3 is pending, and caller 2 is still polling.
C22_Witness ==
  /\ Len(subs) = 3
  /\ subs[2] = subs[3]
  /\ qsub = <<3>>
  /\ run[<<"drain", 2>>].pc # "none"
  /\ caller[2].st = "polling"
  /\ caller[3].st = "polling"

(***************************************************************************)
(* C23.  Cache written only on success: a step that puts a record under a  *)
(* key is the return of the cache write of a run for that key which has    *)
(* called fetchVideoInfo and getTranscript and ends by returning the very  *)
(* record, whose id is the identifier suffix of the key and whose title    *)
(* and text are the run's metadata and transcript; the only other change   *)
(* of the cache is the store dropping a record.  The step in which a run   *)
(* throws leaves the cache as it is, and a run that has thrown never sent  *)
(* a cache write.                                                          *)
(***************************************************************************)
\* Run r writes the record now under key k.
WrittenBy(k, r) ==
  /\ run[r].pc = "cacheSet"
  /\ k = KeyOf[UrlOf(r)]
  /\ {"fetchVideoInfo", "getTranscript", "cacheSet"} \subseteq run[r].calls
  /\ run'[r].pc = "done"
  /\ run'[r].out = <<"record", cache'[k][1]>>
  /\ cache'[k][1].id = Tail(k)
  /\ cache'[k][1].title = run[r].info.title
  /\ cache'[k][1].text = run[r].text

C23_CacheWrittenOnSuccess ==
  [][/\ \A k \in CacheKeys :
          cache'[k] # cache[k] =>
            \/ cache'[k] = <<>>
            \/ \E r \in RunIds : WrittenBy(k, r)
     /\ \A r \in RunIds :
          run'[r].pc = "failed" =>
            /\ "cacheSet" \notin run'[r].calls
            /\ run[r].pc # "failed" => cache' = cache]_vars

\* One run has written its record, which the cache holds; the other run of
\* the same URL, under way meanwhile, has thrown in getTranscript.
C23_Witness ==
  \E r \in RunIds, r2 \in RunIds :
    /\ run[r].pc = "done"
    /\ "cacheSet" \in run[r].calls
    /\ cache[KeyOf[UrlOf(r)]] = <<run[r].out[2]>>
    /\ run[r2].pc = "failed"
    /\ "getTranscript" \in run[r2].calls

(***************************************************************************)
(* C24.  Audio artifact reuse in transcribeAudio.  In the step in which a  *)
(* run enters transcribeAudio: when <id>.mp3 is in dataDir neither         *)
(* convertMp4ToMp3 nor downloadAudio is invoked and the transcription      *)
(* service is looked up at once; else when <id>.mp4 is there only          *)
(* convertMp4ToMp3 is invoked; else only downloadAudio; in the last two    *)
(* cases the service is not looked up yet.  No run ever invokes both, the  *)
(* service has been looked up only with the mp3 in dataDir, and a run that *)
(* has transcribed goes on with the text it got or, when it got nothing,   *)
(* with "Transcription failed".                                            *)
(***************************************************************************)
Producers == {"convertMp4ToMp3", "downloadAudio"}

EntersTranscribeAudio(r) ==
  "transcribeAudio" \notin run[r].calls /\ "transcribeAudio" \in run'[r].calls

C24_AudioArtifactReuse ==
  [][\A r \in RunIds :
       /\ EntersTranscribeAudio(r) =>
            LET u == subs'[r[2]]
                invoked == run'[r].calls \cap (Producers \cup {"getService"})
            IN  IF Mp3Of[u] \in files THEN invoked = {"getService"}
                ELSE IF Mp4Of[u] \in files THEN invoked = {"convertMp4ToMp3"}
                ELSE invoked = {"downloadAudio"}
       /\ ~(Producers \subseteq run'[r].calls)
       /\ "getService" \in run'[r].calls => Mp3Of[subs'[r[2]]] \in files'
       /\ (run[r].pc = "transcribe" /\ run'[r].pc \in {"cacheSet", "done"})
            => run'[r].text \in {"speech", "Transcription failed"}]_vars

\* One run found the mp4, converted it and got nothing from the service;
\* the other run of the call found the mp3 and invoked neither producer.
C24_Witness ==
  \E r \in RunIds, r2 \in RunIds :
    /\ run[r].pc = "done"
    /\ "convertMp4ToMp3" \in run[r].calls
    /\ "transcribe" \in run[r].calls
    /\ run[r].out[2].text = "Transcription failed"
    /\ "transcribeAudio" \in run[r2].calls
    /\ run[r2].calls \cap Producers = {}
    /\ "getService" \in run[r2].calls

(***************************************************************************)
(* C25.  SRT parsing: parseSRT cuts its input into blocks at the blank     *)
(* lines, drops the first two lines of every block, joins the lines left   *)
(* of a block with one space each and the blocks with one space each; so   *)
(* no line break is left in the result, and the two-block file with the    *)
(* texts "Hello world" and "Second line", ended by a blank line, gives     *)
(* exactly "Hello world Second line ".                                     *)
(***************************************************************************)
\* The lines of block b after its first two, with one space between them.
BlockText(b) ==
  LET lines == SplitOn(b, <<"\n">>)
  IN  JoinWith([i \in 1..(IF Len(lines) > 2 THEN Len(lines) - 2 ELSE 0) |->
                  lines[i + 2]], <<" ">>)

C25_ParseSRT ==
  call.fn = "parseSRT" =>
    LET blocks == SplitOn(call.arg, <<"\n", "\n">>)
    IN  /\ call.ret = JoinWith([i \in 1..Len(blocks) |-> BlockText(blocks[i])],
                               <<" ">>)
        /\ \A i \in 1..Len(call.ret) : call.ret[i] # "\n"
        /\ call.arg = SrtExample =>
             /\ Len(blocks) = 3
             /\ ToStr(call.ret) = "Hello world Second line "

C25_Witness ==
  /\ call.fn = "parseSRT"
  /\ call.arg = SrtExample
  /\ Len(call.ret) = 24
  /\ call.ret[24] = " "

(***************************************************************************)
(* C26.  Processing-flag invariant: in every reachable state the           *)
(* processing flag is true exactly when the processQueue invocation of     *)
(* some call is in its while loop; so once no drain loop is executing any  *)
(* more, finished or aborted by an error, the flag is false.               *)
(***************************************************************************)
C26_ProcessingFlag == processing <=> \E l \in SubIds : DrainActive(l)

(***************************************************************************)
(* C27.  No cross-URL cache sharing: two submitted URLs that do not denote *)
(* the same canonical video ID do not have the same cache key, and the     *)
(* record with which the promise of processVideo(u) is resolved has the    *)
(* url of a submission of the same video as u.                             *)
(***************************************************************************)
SameVideo(u, v) == Canonical(UrlText[u]) = Canonical(UrlText[v])

\* The promise of call s is resolved with a record made from its own video.
OwnRecord(s) ==
  caller[s].st = "resolved" => SameVideo(caller[s].value[2].url, subs[s])

C27_NoCrossUrlSharing ==
  \A s \in 1..Len(subs) :
    /\ \A t \in 1..Len(subs) :
         KeyOf[subs[s]] = KeyOf[subs[t]] => SameVideo(subs[s], subs[t])
    /\ OwnRecord(s)

(***************************************************************************)
(* C28.  No lost wakeup: when no pipeline run throws and every external    *)
(* call returns, in every state with a pending entry some drain loop is    *)
(* active and awaits a run that is under way, the processing flag being    *)
(* true; and from every state with a pending entry or with the flag true   *)
(* the instance comes to a state with the queue empty and the flag false.  *)
(***************************************************************************)
\* The drain loop of call l awaits a pipeline run that is under way.
Draining(l) == DrainActive(l) /\ InProgress(<<"drain", loop[l].cur>>)

Quiet == queue = <<>> /\ ~processing

C28_NoLostWakeup ==
  /\ [](queue # <<>> => processing /\ \E l \in SubIds : Draining(l))
  /\ (~Quiet ~> Quiet)

\* The second call pushed its URL while the drain loop of the first call
\* was awaiting its last entry; that loop has dequeued the entry, has
\* finished and has cleared the flag.
C28_Witness ==
  /\ Len(subs) = 2
  /\ loop[2].st = "returned"
  /\ loop[1] = [st |-> "finished", cur |-> 2]
  /\ run[<<"drain", 2>>].pc = "done"
  /\ Quiet


=============================================================================
